---- MODULE Spec2Model ----
(***************************************************************************)
(* Soft undo / soft redo of cursor states (editor contribution cursorUndo). *)
(*                                                                          *)
(* CursorState      : an ordered sequence of selections.                    *)
(* CursorStateStack : a bounded history of cursor states and a position.    *)
(* CursorUndoController : wires the editor's notifications to the stack and *)
(*                    writes restored states back to the editor.            *)
(*                                                                          *)
(* Indices follow the source: positionInHistory is 0-based, so the entry it *)
(* designates is cursorStateHistory[positionInHistory + 1].                 *)
(***************************************************************************)
EXTENDS Integers, Sequences, FiniteSets, TLC

\* CursorStateStack.STACK_SIZE_LIMIT
STACK_SIZE_LIMIT == 50

\* Number of lines of the documents the editor shows (bound of the model).
MaxLine == 61

\* The null of "CursorState | null".
None == "none"

\* A collapsed selection (a caret) on a line: anchor and head coincide.
Caret(line) == [anchor |-> line, head |-> line]

VARIABLES
    cursorStateHistory,   \* CursorStateStack._cursorStateHistory
    positionInHistory,    \* CursorStateStack._positionInHistory (0-based)
    isChangingState,      \* CursorUndoController._isChangingState
    hasModel,             \* the editor has a document attached
    selections,           \* the editor's current selections (<<>> without a document)
    lastOp,               \* the stack operation the last handler performed
    result,               \* what undo()/redo() returned in the last handler
    effects,              \* the calls the last handler made, in order
    prevHistory,          \* cursorStateHistory when the last handler started
    prevPosition,         \* positionInHistory when the last handler started
    undoRun,              \* successful undos in the current run of undo commands
    undoFrom,             \* positionInHistory when that run started
    script,               \* what happened since the last reset, while it has the
                          \* shape: moves, then undos, then redos
    thisState,            \* CursorState.equals: the selections of this
    otherState,           \* CursorState.equals: the selections of other
    equalsResult,         \* CursorState.equals: << what the call returned >>
    nextObject,           \* the number of CursorState objects constructed so far
    discarded,            \* the CursorState objects a record spliced out
    undoStack,            \* earlier variant: CursorStateStack._undoStack
    prevState,            \* earlier variant: CursorStateStack._prevState, as << the
                          \* state >>, or <<>> for null
    currState,            \* earlier variant: the argument of the last undo or redo
                          \* (<<>> before the first)
    pc                    \* earlier variant: "undo" while undo's loop runs

\* What the controller's handlers never touch.
apart == <<thisState, otherState, equalsResult, nextObject, discarded,
           undoStack, prevState, currState, pc>>

vars == <<cursorStateHistory, positionInHistory, isChangingState, hasModel,
          selections, lastOp, result, effects, prevHistory, prevPosition,
          undoRun, undoFrom, script, thisState, otherState, equalsResult,
          nextObject, discarded, undoStack, prevState, currState, pc>>

\* The earlier variant of the stack is not in use.
NoEarlierVariant ==
    /\ undoStack = <<>>
    /\ prevState = <<>>
    /\ currState = <<>>
    /\ pc = "idle"

----------------------------------------------------------------------------
\* CursorState

\* Selection.equalsSelection: the same anchor and the same head.
equalsSelection(a, b) == a.anchor = b.anchor /\ a.head = b.head

\* Range.equalsRange on two selections: the same range, whatever its direction.
equalsRange(a, b) ==
    /\ (IF a.anchor < a.head THEN a.anchor ELSE a.head)
            = (IF b.anchor < b.head THEN b.anchor ELSE b.head)
    /\ (IF a.anchor < a.head THEN a.head ELSE a.anchor)
            = (IF b.anchor < b.head THEN b.head ELSE b.anchor)

\* The items of an array.
items(array) == { array[i] : i \in 1..Len(array) }

\* arrays.equals(one, other, itemEquals): the lengths are compared first, then
\* the items index by index, up to the first pair that differs. The comparator
\* is passed as a function on the items of the two arrays.
arraysEquals(one, other, itemEquals) ==
    IF Len(one) # Len(other)
    THEN FALSE
    ELSE LET upTo[i \in 0..Len(one)] ==
                 IF i = 0 THEN TRUE
                 ELSE upTo[i - 1] /\ itemEquals[one[i], other[i]]
         IN  upTo[Len(one)]

\* CursorState.equals with Range's comparison in place of Selection's.
equals_ByRange(this, other) ==
    arraysEquals(this, other, [a \in items(this), b \in items(other) |-> equalsRange(a, b)])

\* CursorState.equals; this and other are the two objects' selections.
equals(this, other) ==
    arraysEquals(this, other, [a \in items(this), b \in items(other) |-> equalsSelection(a, b)])

----------------------------------------------------------------------------
\* CursorStateStack

\* reset that puts the current state first and forgets to drop the old entries.
reset_KeepsEntries(hist, pos, currentState) ==
    [history |-> <<currentState>> \o hist, position |-> 0]

\* reset that adds the current state after the old entries, as a record would.
reset_Appends(hist, pos, currentState) ==
    [history |-> Append(hist, currentState), position |-> Len(hist)]

\* hist and pos are the fields as the call finds them; reset overwrites both.
reset(hist, pos, currentState) ==
    [history |-> <<currentState>>, position |-> 0]

\* onStateUpdate that shifts the oldest entry out and forgets to move the position.
onStateUpdate_NoDecrement(hist, pos, newState) ==
    LET pushed == Append(SubSeq(hist, 1, pos + 1), newState)
    IN  IF Len(pushed) > STACK_SIZE_LIMIT
        THEN [history |-> Tail(pushed), position |-> pos + 1]
        ELSE [history |-> pushed, position |-> pos + 1]

\* onStateUpdate that compares the length with the limit off by one.
onStateUpdate_LimitOffByOne(hist, pos, newState) ==
    LET pushed == Append(SubSeq(hist, 1, pos + 1), newState)
    IN  IF Len(pushed) > STACK_SIZE_LIMIT + 1
        THEN [history |-> Tail(pushed), position |-> pos]
        ELSE [history |-> pushed, position |-> pos + 1]

\* onStateUpdate that never bounds the history.
onStateUpdate_NoLimit(hist, pos, newState) ==
    [history |-> Append(SubSeq(hist, 1, pos + 1), newState), position |-> pos + 1]

\* onStateUpdate that keeps the entries after the position.
onStateUpdate_NoSplice(hist, pos, newState) ==
    LET pushed == Append(hist, newState)
    IN  IF Len(pushed) > STACK_SIZE_LIMIT
        THEN [history |-> Tail(pushed), position |-> pos]
        ELSE [history |-> pushed, position |-> pos + 1]

\* onStateUpdate that splices from the position, not from the index after it.
onStateUpdate_SpliceAtPosition(hist, pos, newState) ==
    LET pushed == Append(SubSeq(hist, 1, pos), newState)
    IN  IF Len(pushed) > STACK_SIZE_LIMIT
        THEN [history |-> Tail(pushed), position |-> pos]
        ELSE [history |-> pushed, position |-> pos + 1]

\* onStateUpdate that does not push a state equal to the current one.
onStateUpdate_SkipsDuplicates(hist, pos, newState) ==
    IF equals(newState[2], hist[pos + 1][2])
    THEN [history |-> hist, position |-> pos]
    ELSE [history |-> Append(SubSeq(hist, 1, pos + 1), newState), position |-> pos + 1]

\* onStateUpdate that splices one index too late: one future entry survives.
onStateUpdate_SpliceOneLate(hist, pos, newState) ==
    LET pushed == Append(SubSeq(hist, 1, IF pos + 2 <= Len(hist) THEN pos + 2 ELSE Len(hist)),
                         newState)
    IN  IF Len(pushed) > STACK_SIZE_LIMIT
        THEN [history |-> Tail(pushed), position |-> pos]
        ELSE [history |-> pushed, position |-> pos + 1]

\* onStateUpdate that bounds the history with pop() where the code has shift().
onStateUpdate_EvictsNewest(hist, pos, newState) ==
    LET pushed == Append(SubSeq(hist, 1, pos + 1), newState)
    IN  IF Len(pushed) > STACK_SIZE_LIMIT
        THEN [history |-> SubSeq(pushed, 1, Len(pushed) - 1), position |-> pos]
        ELSE [history |-> pushed, position |-> pos + 1]

onStateUpdate(hist, pos, newState) ==
    LET spliced == SubSeq(hist, 1, pos + 1)
        pushed  == Append(spliced, newState)
        pos1    == pos + 1
    IN  IF Len(pushed) > STACK_SIZE_LIMIT
        THEN [history |-> Tail(pushed), position |-> pos1 - 1]
        ELSE [history |-> pushed, position |-> pos1]

\* _getCurrentState that takes "the top-most item in the history" literally.
getCurrentState_TopMost(hist, pos) == hist[Len(hist)]

getCurrentState(hist, pos) == hist[pos + 1]

\* undo that reads the current state before it moves the position back.
undo_ReadsBeforeMove(hist, pos) ==
    IF pos = 0
    THEN [history |-> hist, position |-> pos, ret |-> None]
    ELSE [history |-> hist, position |-> pos - 1, ret |-> getCurrentState(hist, pos)]

\* undo that returns the current state, not null, when there is no past state.
undo_BoundaryReturnsCurrent(hist, pos) ==
    IF pos = 0
    THEN [history |-> hist, position |-> pos, ret |-> getCurrentState(hist, pos)]
    ELSE [history |-> hist, position |-> pos - 1, ret |-> getCurrentState(hist, pos - 1)]

\* undo that pops the entries it steps back over.
undo_Pops(hist, pos) ==
    IF pos = 0
    THEN [history |-> hist, position |-> pos, ret |-> None]
    ELSE [history |-> SubSeq(hist, 1, pos), position |-> pos - 1,
          ret |-> getCurrentState(hist, pos - 1)]

undo(hist, pos) ==
    IF pos = 0
    THEN [history |-> hist, position |-> pos, ret |-> None]
    ELSE [history |-> hist, position |-> pos - 1, ret |-> getCurrentState(hist, pos - 1)]

\* redo that returns the next state and forgets to move the position forward.
redo_NoAdvance(hist, pos) ==
    IF pos = Len(hist) - 1
    THEN [history |-> hist, position |-> pos, ret |-> None]
    ELSE [history |-> hist, position |-> pos, ret |-> getCurrentState(hist, pos + 1)]

\* redo that reads the current state before it moves the position forward.
redo_ReadsBeforeMove(hist, pos) ==
    IF pos = Len(hist) - 1
    THEN [history |-> hist, position |-> pos, ret |-> None]
    ELSE [history |-> hist, position |-> pos + 1, ret |-> getCurrentState(hist, pos)]

redo(hist, pos) ==
    IF pos = Len(hist) - 1
    THEN [history |-> hist, position |-> pos, ret |-> None]
    ELSE [history |-> hist, position |-> pos + 1, ret |-> getCurrentState(hist, pos + 1)]

----------------------------------------------------------------------------
\* The editor, as the controller uses it

\* ICodeEditor.getSelections(): null without a document.
getSelections(attached, sels) == IF attached THEN sels ELSE None

\* CursorUndoController._readState: getSelections() || []
readState(attached, sels) ==
    IF getSelections(attached, sels) = None THEN <<>> ELSE getSelections(attached, sels)

----------------------------------------------------------------------------
\* CursorUndoController

\* One call a handler makes, with the flag's value when it is made.
Effect(kind, value, changing) == [kind |-> kind, value |-> value, changing |-> changing]

\* The listener without its guard: it records whatever the flag says.
onDidChangeCursorSelection_NoGuard(hist, pos, changing, attached, sels) ==
    LET newState == readState(attached, sels)
        st       == onStateUpdate(hist, pos, newState)
    IN  [history |-> st.history, position |-> st.position,
         calls |-> << Effect("onStateUpdate", newState, changing) >>]

\* The listener with its condition inverted.
onDidChangeCursorSelection_InvertedGuard(hist, pos, changing, attached, sels) ==
    IF changing
    THEN LET newState == readState(attached, sels)
             st       == onStateUpdate(hist, pos, newState)
         IN  [history |-> st.history, position |-> st.position,
              calls |-> << Effect("onStateUpdate", newState, changing) >>]
    ELSE [history |-> hist, position |-> pos, calls |-> <<>>]

\* The listener of onDidChangeCursorSelection, run with the flag as it is when
\* the notification is delivered.
onDidChangeCursorSelection(hist, pos, changing, attached, sels) ==
    IF ~changing
    THEN LET newState == readState(attached, sels)
             st       == onStateUpdate(hist, pos, newState)
         IN  [history |-> st.history, position |-> st.position,
              calls |-> << Effect("onStateUpdate", newState, changing) >>]
    ELSE [history |-> hist, position |-> pos, calls |-> <<>>]

\* newState.selections[0], as the one-element sequence of the primary selection;
\* the index 0 of an empty array is undefined, here <<>>.
primary(newState) == IF Len(newState) = 0 THEN <<>> ELSE <<newState[1]>>

\* _updateCursorState that asks for the reveal before it clears the flag.
updateCursorState_RevealsWhileChanging(hist, pos, changing, attached, sels, newState) ==
    IF newState = None
    THEN [history |-> hist, position |-> pos, selections |-> sels,
          isChangingState |-> changing, effects |-> <<>>]
    ELSE LET st == onDidChangeCursorSelection(hist, pos, TRUE, attached, newState)
         IN  [history |-> st.history, position |-> st.position,
              selections |-> newState, isChangingState |-> FALSE,
              effects |-> << Effect("setSelections", newState, TRUE) >>
                          \o st.calls
                          \o << Effect("reveal", primary(newState), TRUE) >>]

\* _updateCursorState that never clears the flag after the write.
updateCursorState_FlagLeftSet(hist, pos, changing, attached, sels, newState) ==
    IF newState = None
    THEN [history |-> hist, position |-> pos, selections |-> sels,
          isChangingState |-> changing, effects |-> <<>>]
    ELSE LET st == onDidChangeCursorSelection(hist, pos, TRUE, attached, newState)
         IN  [history |-> st.history, position |-> st.position,
              selections |-> newState, isChangingState |-> TRUE,
              effects |-> << Effect("setSelections", newState, TRUE) >>
                          \o st.calls
                          \o << Effect("reveal", primary(newState), TRUE) >>]

\* _updateCursorState(newState), called with the stack as undo()/redo() left it.
\* setSelections replaces the editor's selections and delivers the
\* selection-changed notification synchronously, while the flag is set.
updateCursorState(hist, pos, changing, attached, sels, newState) ==
    IF newState = None
    THEN [history |-> hist, position |-> pos, selections |-> sels,
          isChangingState |-> changing, effects |-> <<>>]
    ELSE LET st == onDidChangeCursorSelection(hist, pos, TRUE, attached, newState)
         IN  [history |-> st.history, position |-> st.position,
              selections |-> newState, isChangingState |-> FALSE,
              effects |-> << Effect("setSelections", newState, TRUE) >>
                          \o st.calls
                          \o << Effect("reveal", primary(newState), FALSE) >>]

----------------------------------------------------------------------------
\* Observers: they record what the handlers did and influence nothing.

ScriptOff == [phase |-> "off", visited |-> <<>>, undos |-> 0, redos |-> 0]

ScriptStart(sels) == [phase |-> "moves", visited |-> <<sels>>, undos |-> 0, redos |-> 0]

\* The script after a handler that performed op, leaving the editor at sels.
ScriptNext(op, sels) ==
    LET moves == Len(script.visited) - 1
    IN  CASE op = "reset" -> ScriptStart(sels)
          [] op = "record" /\ script.phase = "moves" ->
                [script EXCEPT !.visited = Append(@, sels)]
          [] op = "undo" /\ script.phase \in {"moves", "undos"} /\ script.undos <= moves ->
                [script EXCEPT !.phase = "undos", !.undos = @ + 1]
          [] op = "redo" /\ script.phase = "undos" /\ script.undos >= moves /\ moves >= 1 ->
                [script EXCEPT !.phase = "redos", !.redos = 1]
          [] op = "redo" /\ script.phase = "redos" /\ script.redos < moves ->
                [script EXCEPT !.redos = @ + 1]
          [] OTHER -> ScriptOff

Observe(op, ret, sels) ==
    /\ lastOp' = op
    /\ result' = ret
    /\ prevHistory' = cursorStateHistory
    /\ prevPosition' = positionInHistory
    /\ undoRun' = IF op # "undo" THEN 0
                  ELSE (IF lastOp = "undo" THEN undoRun ELSE 0)
                       + (IF ret # None THEN 1 ELSE 0)
    /\ undoFrom' = IF op # "undo" THEN 0
                   ELSE IF lastOp = "undo" THEN undoFrom ELSE positionInHistory
    /\ script' = ScriptNext(op, sels)

----------------------------------------------------------------------------
Init ==
    /\ NoEarlierVariant
    /\ hasModel = TRUE
    /\ selections = <<Caret(1)>>
    /\ isChangingState = FALSE
    /\ cursorStateHistory = reset(<<>>, 0, readState(TRUE, <<Caret(1)>>)).history
    /\ positionInHistory = reset(<<>>, 0, readState(TRUE, <<Caret(1)>>)).position
    /\ lastOp = "reset"
    /\ result = None
    /\ effects = <<>>
    /\ prevHistory = <<>>
    /\ prevPosition = 0
    /\ undoRun = 0
    /\ undoFrom = 0
    /\ script = ScriptStart(<<Caret(1)>>)
    /\ thisState = <<>>
    /\ otherState = <<>>
    /\ equalsResult = <<>>
    /\ nextObject = 0
    /\ discarded = {}

\* editor.onDidChangeModel: a document is attached or detached.
DidChangeModel ==
    \E attached \in BOOLEAN :
        LET sels == IF attached THEN <<Caret(1)>> ELSE <<>>
            st   == reset(cursorStateHistory, positionInHistory, readState(attached, sels))
        IN  /\ hasModel' = attached
            /\ selections' = sels
            /\ cursorStateHistory' = st.history
            /\ positionInHistory' = st.position
            /\ effects' = <<>>
            /\ Observe("reset", None, sels)
            /\ UNCHANGED isChangingState
            /\ UNCHANGED apart

\* editor.onDidChangeModelContent: the document's text changed.
DidChangeModelContent ==
    /\ hasModel
    /\ LET st == reset(cursorStateHistory, positionInHistory,
                       readState(hasModel, selections))
       IN  /\ cursorStateHistory' = st.history
           /\ positionInHistory' = st.position
    /\ effects' = <<>>
    /\ Observe("reset", None, selections)
    /\ UNCHANGED <<isChangingState, hasModel, selections>>
    /\ UNCHANGED apart

\* editor.onDidChangeCursorSelection: the user moved the caret one line down.
DidChangeCursorSelection ==
    /\ hasModel
    /\ selections[1].head < MaxLine
    /\ LET sels == <<Caret(selections[1].head + 1)>>
           st   == onDidChangeCursorSelection(cursorStateHistory, positionInHistory,
                                              isChangingState, hasModel, sels)
       IN  /\ selections' = sels
           /\ cursorStateHistory' = st.history
           /\ positionInHistory' = st.position
           /\ effects' = st.calls
           /\ Observe(IF isChangingState THEN "ignored" ELSE "record", None, sels)
    /\ UNCHANGED <<isChangingState, hasModel>>
    /\ UNCHANGED apart

\* CursorUndoController.cursorUndo
cursorUndo ==
    LET u  == undo(cursorStateHistory, positionInHistory)
        st == updateCursorState(u.history, u.position, isChangingState,
                                hasModel, selections, u.ret)
    IN  /\ cursorStateHistory' = st.history
        /\ positionInHistory' = st.position
        /\ selections' = st.selections
        /\ isChangingState' = st.isChangingState
        /\ effects' = st.effects
        /\ Observe("undo", u.ret, st.selections)
        /\ UNCHANGED hasModel
        /\ UNCHANGED apart

\* CursorUndoController.cursorRedo
cursorRedo ==
    LET r  == redo(cursorStateHistory, positionInHistory)
        st == updateCursorState(r.history, r.position, isChangingState,
                                hasModel, selections, r.ret)
    IN  /\ cursorStateHistory' = st.history
        /\ positionInHistory' = st.position
        /\ selections' = st.selections
        /\ isChangingState' = st.isChangingState
        /\ effects' = st.effects
        /\ Observe("redo", r.ret, st.selections)
        /\ UNCHANGED hasModel
        /\ UNCHANGED apart

Next ==
    \/ DidChangeModel
    \/ DidChangeModelContent
    \/ DidChangeCursorSelection
    \/ cursorUndo
    \/ cursorRedo

Spec == Init /\ [][Next]_vars

----------------------------------------------------------------------------
\* CursorState.equals on its own: two cursor states of at most MaxSelections
\* selections each, with anchors and heads on the lines 1..MaxPosition.

MaxSelections == 2
MaxPosition == 2

Selections == [anchor : 1..MaxPosition, head : 1..MaxPosition]

CursorStates == UNION { [1..n -> Selections] : n \in 0..MaxSelections }

\* What the calls of CursorState.equals never touch.
controller == <<cursorStateHistory, positionInHistory, isChangingState, hasModel,
                selections, lastOp, result, effects, prevHistory, prevPosition,
                undoRun, undoFrom, script, nextObject, discarded,
                undoStack, prevState, currState, pc>>

EqualsInit ==
    /\ NoEarlierVariant
    /\ thisState \in CursorStates
    /\ otherState \in CursorStates
    /\ equalsResult = <<>>
    /\ hasModel = TRUE
    /\ selections = thisState
    /\ isChangingState = FALSE
    /\ cursorStateHistory = <<thisState>>
    /\ positionInHistory = 0
    /\ lastOp = "reset"
    /\ result = None
    /\ effects = <<>>
    /\ prevHistory = <<>>
    /\ prevPosition = 0
    /\ undoRun = 0
    /\ undoFrom = 0
    /\ script = ScriptOff
    /\ nextObject = 0
    /\ discarded = {}

\* this.equals(other)
CallEquals ==
    /\ equalsResult = <<>>
    /\ equalsResult' = << equals(thisState, otherState) >>
    /\ UNCHANGED <<thisState, otherState>>
    /\ UNCHANGED controller

EqualsNext == CallEquals

EqualsSpec == EqualsInit /\ [][EqualsNext]_vars

----------------------------------------------------------------------------
\* CursorStateStack on its own, called with any states. A CursorState is here
\* the object itself: the number it got when it was constructed, for its
\* identity, and its selections. At most MaxObjects objects are constructed.

MaxObjects == 5

\* The selections the objects are constructed with.
StackInputs == { <<Caret(line)>> : line \in 1..MaxPosition }

\* new CursorState(sels)
NewCursorState(sels) == << nextObject + 1, sels >>

\* The identity and the selections of such an object.
idOf(state) == state[1]
selectionsOf(state) == state[2]

\* What the calls of the stack never touch.
aside == <<isChangingState, hasModel, selections, undoRun, undoFrom, script,
           thisState, otherState, equalsResult, undoStack, prevState, currState, pc>>

StackObserve(op, ret, calls) ==
    /\ lastOp' = op
    /\ result' = ret
    /\ effects' = calls
    /\ prevHistory' = cursorStateHistory
    /\ prevPosition' = positionInHistory

StackInit ==
    /\ NoEarlierVariant
    /\ \E sels \in StackInputs :
            LET st == reset(<<>>, 0, << 1, sels >>)
            IN  /\ cursorStateHistory = st.history
                /\ positionInHistory = st.position
    /\ nextObject = 1
    /\ discarded = {}
    /\ lastOp = "reset"
    /\ result = None
    /\ effects = <<>>
    /\ prevHistory = <<>>
    /\ prevPosition = 0
    /\ isChangingState = FALSE
    /\ hasModel = TRUE
    /\ selections = <<>>
    /\ undoRun = 0
    /\ undoFrom = 0
    /\ script = ScriptOff
    /\ thisState = <<>>
    /\ otherState = <<>>
    /\ equalsResult = <<>>

\* stack.reset(new CursorState(sels))
StackReset ==
    /\ nextObject < MaxObjects
    /\ \E sels \in StackInputs :
            LET st == reset(cursorStateHistory, positionInHistory, NewCursorState(sels))
            IN  /\ cursorStateHistory' = st.history
                /\ positionInHistory' = st.position
                /\ StackObserve("reset", None, << Effect("reset", NewCursorState(sels), FALSE) >>)
    /\ nextObject' = nextObject + 1
    /\ UNCHANGED discarded
    /\ UNCHANGED aside

\* stack.onStateUpdate(new CursorState(sels)); the entries after the position
\* are the ones the call is to splice out.
StackRecord ==
    /\ nextObject < MaxObjects
    /\ \E sels \in StackInputs :
            LET st == onStateUpdate(cursorStateHistory, positionInHistory, NewCursorState(sels))
            IN  /\ cursorStateHistory' = st.history
                /\ positionInHistory' = st.position
                /\ StackObserve("record", None,
                                << Effect("onStateUpdate", NewCursorState(sels), FALSE) >>)
    /\ nextObject' = nextObject + 1
    /\ discarded' = discarded \cup
            { cursorStateHistory[i] : i \in (positionInHistory + 2)..Len(cursorStateHistory) }
    /\ UNCHANGED aside

\* stack.undo()
StackUndo ==
    LET u == undo(cursorStateHistory, positionInHistory)
    IN  /\ cursorStateHistory' = u.history
        /\ positionInHistory' = u.position
        /\ StackObserve("undo", u.ret, <<>>)
        /\ UNCHANGED <<nextObject, discarded>>
        /\ UNCHANGED aside

\* stack.redo()
StackRedo ==
    LET r == redo(cursorStateHistory, positionInHistory)
    IN  /\ cursorStateHistory' = r.history
        /\ positionInHistory' = r.position
        /\ StackObserve("redo", r.ret, <<>>)
        /\ UNCHANGED <<nextObject, discarded>>
        /\ UNCHANGED aside

StackNext ==
    \/ StackReset
    \/ StackRecord
    \/ StackUndo
    \/ StackRedo

StackSpec == StackInit /\ [][StackNext]_vars

----------------------------------------------------------------------------
\* The earlier variant of CursorStateStack: an undo stack and the previous
\* state, undo taking the current state. A state is here its selections; the
\* stack is called with any states, and holds at most MaxUndoStack entries
\* when a state is pushed. A state or null (CursorState | null) is << the
\* state >> or <<>>.

MaxUndoStack == 4

\* onStateUpdate(newState): the previous state, if there is one, is pushed and
\* the stack kept bounded; the new state becomes the previous one.
legacyOnStateUpdate(stack, prev, newState) ==
    LET pushed == IF prev # <<>> THEN Append(stack, prev[1]) ELSE stack
    IN  [undoStack |-> IF prev # <<>> /\ Len(pushed) > STACK_SIZE_LIMIT
                       THEN Tail(pushed) ELSE pushed,
         prevState |-> newState]

\* undo's loop with the test of the popped entry inverted.
legacyUndoStep_ReturnsEqual(stack, prev, curr) ==
    IF Len(stack) = 0
    THEN [undoStack |-> stack, prevState |-> prev, pc |-> "idle", ret |-> None]
    ELSE IF equals(stack[Len(stack)], curr)
         THEN [undoStack |-> SubSeq(stack, 1, Len(stack) - 1),
               prevState |-> << stack[Len(stack)] >>, pc |-> "idle",
               ret |-> stack[Len(stack)]]
         ELSE [undoStack |-> SubSeq(stack, 1, Len(stack) - 1),
               prevState |-> prev, pc |-> "undo", ret |-> None]

\* One round of undo(currState): the loop's condition and, if it holds, the
\* loop's body. With an empty stack undo returns null; else the top entry is
\* popped and, if it is not equal to the current state, becomes the previous
\* state and is returned; else the loop goes on.
legacyUndoStep(stack, prev, curr) ==
    IF Len(stack) = 0
    THEN [undoStack |-> stack, prevState |-> prev, pc |-> "idle", ret |-> None]
    ELSE LET popped == stack[Len(stack)]
             rest   == SubSeq(stack, 1, Len(stack) - 1)
         IN  IF ~equals(popped, curr)
             THEN [undoStack |-> rest, prevState |-> << popped >>, pc |-> "idle",
                   ret |-> popped]
             ELSE [undoStack |-> rest, prevState |-> prev, pc |-> "undo", ret |-> None]

\* redo(currState): not implemented, returns null.
legacyRedo(stack, prev, curr) ==
    [undoStack |-> stack, prevState |-> prev, ret |-> None]

\* reset()
legacyReset(stack, prev) ==
    [undoStack |-> <<>>, prevState |-> <<>>]

\* What the calls of the earlier variant never touch.
beside == <<cursorStateHistory, positionInHistory, isChangingState, hasModel,
            selections, effects, prevPosition, undoRun, undoFrom, script,
            thisState, otherState, equalsResult, nextObject, discarded>>

\* new CursorStateStack(initialState), with a state or with null
LegacyInit ==
    /\ undoStack = <<>>
    /\ prevState \in { <<>> } \cup { << sels >> : sels \in StackInputs }
    /\ currState = <<>>
    /\ pc = "idle"
    /\ lastOp = "new"
    /\ result = None
    /\ prevHistory = <<>>
    /\ cursorStateHistory = << <<>> >>
    /\ positionInHistory = 0
    /\ isChangingState = FALSE
    /\ hasModel = TRUE
    /\ selections = <<>>
    /\ effects = <<>>
    /\ prevPosition = 0
    /\ undoRun = 0
    /\ undoFrom = 0
    /\ script = ScriptOff
    /\ thisState = <<>>
    /\ otherState = <<>>
    /\ equalsResult = <<>>
    /\ nextObject = 0
    /\ discarded = {}

\* stack.onStateUpdate(newState), with a state or with null
LegacyOnStateUpdate ==
    /\ pc = "idle"
    /\ Len(undoStack) < MaxUndoStack
    /\ \E newState \in { <<>> } \cup { << sels >> : sels \in StackInputs } :
            LET st == legacyOnStateUpdate(undoStack, prevState, newState)
            IN  /\ undoStack' = st.undoStack
                /\ prevState' = st.prevState
    /\ lastOp' = "onStateUpdate"
    /\ result' = None
    /\ prevHistory' = <<>>
    /\ UNCHANGED <<currState, pc>>
    /\ UNCHANGED beside

\* stack.reset()
LegacyReset ==
    /\ pc = "idle"
    /\ LET st == legacyReset(undoStack, prevState)
       IN  /\ undoStack' = st.undoStack
           /\ prevState' = st.prevState
    /\ lastOp' = "reset"
    /\ result' = None
    /\ prevHistory' = <<>>
    /\ UNCHANGED <<currState, pc>>
    /\ UNCHANGED beside

\* stack.undo(currState) is called: the controller passes a state, never
\* null. prevHistory keeps the stack as the call finds it.
LegacyUndoCall ==
    /\ pc = "idle"
    /\ \E curr \in StackInputs : currState' = curr
    /\ pc' = "undo"
    /\ lastOp' = "undo called"
    /\ result' = None
    /\ prevHistory' = undoStack
    /\ UNCHANGED <<undoStack, prevState>>
    /\ UNCHANGED beside

\* The running undo makes one round of its loop, or returns.
LegacyUndoStep ==
    /\ pc = "undo"
    /\ LET st == legacyUndoStep(undoStack, prevState, currState)
       IN  /\ undoStack' = st.undoStack
           /\ prevState' = st.prevState
           /\ pc' = st.pc
           /\ result' = st.ret
           /\ lastOp' = IF st.pc = "idle" THEN "undo" ELSE "undo loop"
    /\ UNCHANGED <<currState, prevHistory>>
    /\ UNCHANGED beside

\* stack.redo(currState)
LegacyRedo ==
    /\ pc = "idle"
    /\ \E curr \in StackInputs :
            LET st == legacyRedo(undoStack, prevState, curr)
            IN  /\ undoStack' = st.undoStack
                /\ prevState' = st.prevState
                /\ result' = st.ret
                /\ currState' = curr
    /\ lastOp' = "redo"
    /\ prevHistory' = <<>>
    /\ UNCHANGED pc
    /\ UNCHANGED beside

LegacyNext ==
    \/ LegacyOnStateUpdate
    \/ LegacyReset
    \/ LegacyUndoCall
    \/ LegacyUndoStep
    \/ LegacyRedo

\* The loop of a running undo keeps running: nothing else runs meanwhile.
LegacySpec == LegacyInit /\ [][LegacyNext]_vars /\ WF_vars(LegacyUndoStep)

----------------------------------------------------------------------------
\* Properties

\* The entry the stack designated when the last handler started.
PrevCurrent == prevHistory[prevPosition + 1]

\* C1: in every reachable state the history is non-empty and
\* 0 <= positionInHistory < Len(cursorStateHistory).
C1_PositionInRange ==
    /\ Len(cursorStateHistory) >= 1
    /\ 0 <= positionInHistory
    /\ positionInHistory < Len(cursorStateHistory)

\* A record on a full history, made at its last index: the oldest entry is evicted.
C1_Witness ==
    /\ lastOp = "record"
    /\ Len(prevHistory) = STACK_SIZE_LIMIT
    /\ prevPosition = STACK_SIZE_LIMIT - 1
    /\ positionInHistory = Len(cursorStateHistory) - 1

\* C2: in every reachable state the history holds at most STACK_SIZE_LIMIT
\* (50) entries, however records, undos, redos and resets are interleaved.
C2_HistoryBounded == Len(cursorStateHistory) <= 50

\* More than 50 states were recorded since the last reset, and the history is full.
C2_Witness ==
    /\ lastOp = "record"
    /\ script.phase = "moves"
    /\ Len(script.visited) > 50
    /\ Len(cursorStateHistory) = 50

\* C3: right after any record the position is the last index, so that a redo
\* made right after a record returns none and changes nothing; in particular
\* when an undo had moved the position off the tail before the record.
C3_RecordDiscardsRedo ==
    [][ /\ (lastOp' = "record" =>
                positionInHistory' = Len(cursorStateHistory') - 1)
        /\ (lastOp = "record" /\ lastOp' = "redo" =>
                /\ result' = None
                /\ cursorStateHistory' = cursorStateHistory
                /\ positionInHistory' = positionInHistory
                /\ selections' = selections) ]_vars

\* The position was off the tail (an undo left it there) and a record was made: the
\* entries after the position are gone and there is nothing to redo.
C3_Witness ==
    /\ lastOp = "record"
    /\ prevPosition < Len(prevHistory) - 1
    /\ Len(cursorStateHistory) < Len(prevHistory)
    /\ redo(cursorStateHistory, positionInHistory).ret = None

\* C4: an undo made right after a record returns the entry that was current
\* when the record was made (reset(s); record(s1); undo() returns s), also when
\* the record evicted the oldest entry.
C4_RecordUndoRoundTrip ==
    [][ lastOp = "record" /\ lastOp' = "undo" =>
            result' = PrevCurrent ]_vars

\* More than 50 states were recorded since the last reset, so that the last
\* record evicted an entry, and one undo followed and returned a state.
C4_Witness ==
    /\ lastOp = "undo"
    /\ script.phase = "undos"
    /\ script.undos = 1
    /\ Len(script.visited) > STACK_SIZE_LIMIT
    /\ result = script.visited[Len(script.visited) - 1]

\* C5: a redo made right after an undo that returned a state returns the entry
\* that was current before the undo and leaves history and position as they
\* were before the undo; and the same for an undo right after such a redo.
C5_UndoRedoRoundTrip ==
    [][ /\ (lastOp = "undo" /\ result # None /\ lastOp' = "redo" =>
                /\ result' = PrevCurrent
                /\ cursorStateHistory' = prevHistory
                /\ positionInHistory' = prevPosition)
        /\ (lastOp = "redo" /\ result # None /\ lastOp' = "undo" =>
                /\ result' = PrevCurrent
                /\ cursorStateHistory' = prevHistory
                /\ positionInHistory' = prevPosition) ]_vars

\* reset(s); record(s1); undo(); redo(): the redo returned s1.
C5_Witness ==
    /\ lastOp = "redo"
    /\ script.phase = "redos"
    /\ Len(script.visited) = 2
    /\ script.undos = 1
    /\ script.redos = 1
    /\ result = script.visited[2]
    /\ positionInHistory = 1

\* C6: an undo at position 0 and a redo at the last index return none, make no
\* call on the editor and leave history, position and selections as they were;
\* on a history just reset both return none.
C6_BoundaryNoOps ==
    [][ /\ (lastOp' = "undo" /\ positionInHistory = 0 =>
                /\ result' = None
                /\ effects' = <<>>
                /\ UNCHANGED <<cursorStateHistory, positionInHistory, selections>>)
        /\ (lastOp' = "redo" /\ positionInHistory = Len(cursorStateHistory) - 1 =>
                /\ result' = None
                /\ effects' = <<>>
                /\ UNCHANGED <<cursorStateHistory, positionInHistory, selections>>)
        /\ (lastOp = "reset" /\ lastOp' \in {"undo", "redo"} => result' = None) ]_vars

\* An undo at position 0 of a history that holds several entries, made after
\* the undos that led there, returned none.
C6_Witness ==
    /\ lastOp = "undo"
    /\ result = None
    /\ prevPosition = 0
    /\ positionInHistory = 0
    /\ Len(cursorStateHistory) > 2
    /\ script.phase = "undos"
    /\ script.undos = Len(script.visited)

\* C7: a handled document-content-changed or document-identity-replaced
\* notification leaves the history the singleton of the editor's selections at
\* that moment, at position 0, whatever the history was; an undo or redo
\* command right after it returns none.
C7_ResetOnModelChange ==
    [][ /\ (lastOp' = "reset" =>
                /\ cursorStateHistory' = << IF hasModel' THEN selections' ELSE <<>> >>
                /\ positionInHistory' = 0)
        /\ (lastOp = "reset" /\ lastOp' \in {"undo", "redo"} =>
                /\ result' = None
                /\ effects' = <<>>
                /\ selections' = selections) ]_vars

\* A notification handled with a document attached while the history held
\* entries before and after the position.
C7_Witness ==
    /\ lastOp = "reset"
    /\ hasModel
    /\ prevPosition > 0
    /\ prevPosition < Len(prevHistory) - 1
    /\ cursorStateHistory = <<selections>>
    /\ selections # prevHistory[1]

\* C8: while the controller writes a restored state to the editor the flag is
\* set and the selection-changed notification the write delivers does not
\* reach onStateUpdate; so a command that restores a state leaves the history
\* as it was and moves the position by exactly one.
C8_NoRecordWhileChangingState ==
    [][ lastOp' \in {"undo", "redo"} /\ result' # None =>
            /\ \A i \in 1..Len(effects') : effects'[i].kind # "onStateUpdate"
            /\ \E i \in 1..Len(effects') :
                    /\ effects'[i].kind = "setSelections"
                    /\ effects'[i].changing
            /\ cursorStateHistory' = cursorStateHistory
            /\ positionInHistory' =
                    positionInHistory + (IF lastOp' = "redo" THEN 1 ELSE -1) ]_vars

\* An undo command restored a state: it wrote it to the editor with the flag set.
C8_Witness ==
    /\ lastOp = "undo"
    /\ result # None
    /\ effects[1] = Effect("setSelections", result, TRUE)
    /\ selections = result
    /\ cursorStateHistory = prevHistory
    /\ positionInHistory = prevPosition - 1

\* C9: after a reset at selections S0 and k <= 49 user moves to S1..Sk, the i-th
\* of k consecutive undo commands sets the editor to S(k-i), one more undo
\* command changes nothing, and the j-th of the redo commands that follow sets
\* the editor to Sj. script.visited is <<S0, ..., Sk>>.
C9_MultiStepUndoRedo ==
    LET k == Len(script.visited) - 1
    IN  k <= 49 =>
            /\ (script.phase = "undos" /\ script.undos <= k =>
                    /\ result = script.visited[k - script.undos + 1]
                    /\ selections = script.visited[k - script.undos + 1])
            /\ (script.phase = "undos" /\ script.undos = k + 1 =>
                    /\ result = None
                    /\ effects = <<>>
                    /\ selections = script.visited[1]
                    /\ cursorStateHistory = prevHistory
                    /\ positionInHistory = prevPosition)
            /\ (script.phase = "redos" =>
                    /\ result = script.visited[script.redos + 1]
                    /\ selections = script.visited[script.redos + 1])

\* 49 moves after a reset, 49 undo commands and one more, then 49 redo commands.
C9_Witness ==
    /\ script.phase = "redos"
    /\ Len(script.visited) = 50
    /\ script.undos = 50
    /\ script.redos = 49
    /\ selections = script.visited[50]
    /\ selections # script.visited[1]

\* C10: in a run of consecutive undo commands at most 49 return a state, each
\* of them moves the position back by one, and none is returned exactly when
\* as many succeeded as the position counted when the run started; so after a
\* reset and 60 records 49 undos succeed and the 50th returns none.
C10_BoundedUndoDepth ==
    lastOp = "undo" =>
        /\ undoRun <= 49
        /\ undoFrom <= 49
        /\ positionInHistory = undoFrom - undoRun
        /\ (result = None <=> undoRun = undoFrom /\ prevPosition = 0)

\* A reset, 60 records of distinct states, 49 successful undos and one undo more.
C10_Witness ==
    /\ lastOp = "undo"
    /\ script.phase = "undos"
    /\ Len(script.visited) = 61
    /\ \A i, j \in 1..61 : i # j => script.visited[i] # script.visited[j]
    /\ script.undos = 50
    /\ undoRun = 49
    /\ result = None

\* The last n elements of the sequence s (all of s when it has fewer).
LastN(s, n) == SubSeq(s, IF Len(s) > n THEN Len(s) - n + 1 ELSE 1, Len(s))

\* C11: a record that makes the history longer than 50 removes exactly the
\* entry at index 0, and the position still designates the state just
\* recorded; after a reset at s0 and n records x1..xn with no undo between, the
\* history is the last min(n + 1, 50) elements of <<s0, x1, ..., xn>> and the
\* position is its last index. script.visited is <<s0, x1, ..., xn>>.
C11_OldestFirstEviction ==
    /\ (lastOp = "record" /\ prevPosition + 2 > 50 =>
            /\ Len(cursorStateHistory) = 50
            /\ SubSeq(cursorStateHistory, 1, 49) = SubSeq(prevHistory, 2, prevPosition + 1)
            /\ cursorStateHistory[50] = effects[1].value
            /\ positionInHistory = prevPosition
            /\ cursorStateHistory[positionInHistory + 1] = effects[1].value)
    /\ (script.phase = "moves" =>
            /\ cursorStateHistory = LastN(script.visited, 50)
            /\ positionInHistory = Len(cursorStateHistory) - 1)

\* A reset and 55 records: the five oldest states have been evicted.
C11_Witness ==
    /\ lastOp = "record"
    /\ script.phase = "moves"
    /\ Len(script.visited) = 56
    /\ cursorStateHistory[1] = script.visited[7]
    /\ cursorStateHistory[1] # prevHistory[1]
    /\ effects = << Effect("onStateUpdate", selections, FALSE) >>

\* C12: equals(a, b) is true exactly when a and b have the same number of
\* selections and at every index the two selections have the same anchor and
\* the same head; the order counts; the call changes neither of the two.
C12_SnapshotEquality ==
    [][ equalsResult' # equalsResult =>
            /\ equalsResult'[1] =
                    (/\ Len(thisState) = Len(otherState)
                     /\ \A i \in 1..Len(thisState) :
                            /\ thisState[i].anchor = otherState[i].anchor
                            /\ thisState[i].head = otherState[i].head)
            /\ thisState' = thisState
            /\ otherState' = otherState ]_vars

\* Two cursor states that hold the same two selections in opposite order were
\* compared, and are not equal.
C12_Witness ==
    /\ equalsResult = <<FALSE>>
    /\ Len(thisState) = 2
    /\ Len(otherState) = 2
    /\ thisState[1] = otherState[2]
    /\ thisState[2] = otherState[1]
    /\ thisState[1] # thisState[2]

\* C13: a record of x on the history h at position p leaves h[0..p] followed by
\* x, without its first element when that has more than 50 elements, and the
\* position on its last index; the resulting length is min(p + 2, 50).
C13_ResultOfRecord ==
    lastOp = "record" =>
        LET x    == effects[1].value
            kept == [i \in 1..(prevPosition + 1) |-> prevHistory[i]]
            full == kept \o <<x>>
        IN  /\ cursorStateHistory =
                    (IF Len(full) > 50 THEN [i \in 1..(Len(full) - 1) |-> full[i + 1]]
                                       ELSE full)
            /\ positionInHistory = Len(cursorStateHistory) - 1
            /\ Len(cursorStateHistory) =
                    (IF prevPosition + 2 < 50 THEN prevPosition + 2 ELSE 50)

\* A record made in the middle of a full history: the entries after the
\* position are gone, the ones up to it are kept, nothing is evicted.
C13_Witness ==
    /\ lastOp = "record"
    /\ Len(prevHistory) = 50
    /\ prevPosition = 20
    /\ Len(cursorStateHistory) = 22
    /\ cursorStateHistory[1] = prevHistory[1]
    /\ cursorStateHistory[22] = selections

\* C14: whenever no handler is running (the flag is clear) the entry at the
\* position is the editor's current selections, every change of which reaches
\* the controller as a selection-changed notification.
C14_HistoryAgreesWithEditor ==
    ~isChangingState =>
        cursorStateHistory[positionInHistory + 1] = (IF hasModel THEN selections ELSE <<>>)

\* After an undo command and a user move: the entry at the position is where
\* the user moved to, not where the undone branch had been.
C14_Witness ==
    /\ lastOp = "record"
    /\ prevPosition + 2 < Len(prevHistory)
    /\ cursorStateHistory[positionInHistory + 1] = selections
    /\ Len(selections) = 1
    /\ positionInHistory > 2

\* C15: the flag is clear when the controller is constructed and whenever a
\* handler has returned; it is set only for the write of the restored state;
\* so every selection-changed notification the user causes is recorded.
C15_ApplyingStateIsTransient ==
    [][ /\ ~isChangingState
        /\ ~isChangingState'
        /\ \A i \in 1..Len(effects') :
                effects'[i].changing <=> effects'[i].kind = "setSelections"
        /\ (DidChangeCursorSelection =>
                /\ lastOp' = "record"
                /\ effects' = << Effect("onStateUpdate", selections', FALSE) >>
                /\ cursorStateHistory'[positionInHistory' + 1] = selections') ]_vars

\* The user moved the caret after commands had left the position in the middle
\* of the history, and the move was recorded.
C15_Witness ==
    /\ lastOp = "record"
    /\ ~isChangingState
    /\ Len(prevHistory) > prevPosition + 1
    /\ prevPosition > 0
    /\ effects = << Effect("onStateUpdate", selections, FALSE) >>
    /\ script.phase = "off"

\* C19: undo and redo never change the history; a call that returns a state
\* moves the position by exactly one (undo back, redo forward) and returns the
\* entry at the new position; a call that returns none moves nothing; only
\* record and reset change the history.
C19_UndoRedoMoveOnlyThePosition ==
    [][ /\ (lastOp' \in {"undo", "redo"} =>
                /\ cursorStateHistory' = cursorStateHistory
                /\ IF result' = None
                   THEN positionInHistory' = positionInHistory
                   ELSE /\ positionInHistory' =
                               positionInHistory + (IF lastOp' = "redo" THEN 1 ELSE -1)
                        /\ result' = cursorStateHistory[positionInHistory' + 1])
        /\ (cursorStateHistory' # cursorStateHistory =>
                lastOp' \in {"record", "reset"}) ]_vars

\* A redo from the middle of a history returned the next entry.
C19_Witness ==
    /\ lastOp = "redo"
    /\ result # None
    /\ prevPosition > 0
    /\ positionInHistory = prevPosition + 1
    /\ positionInHistory < Len(cursorStateHistory) - 1
    /\ cursorStateHistory = prevHistory
    /\ result = cursorStateHistory[positionInHistory + 1]

\* C17: an undo or redo command whose stack call returns a state s writes s to
\* the editor once, with the flag set, and then asks once for the reveal of
\* the first selection of s, with the flag clear; a command whose stack call
\* returns none calls nothing and leaves flag, editor and history as they were.
C17_EffectOfCommands ==
    [][ lastOp' \in {"undo", "redo"} =>
            IF result' # None
            THEN /\ effects' = << Effect("setSelections", result', TRUE),
                                  Effect("reveal", <<result'[1]>>, FALSE) >>
                 /\ selections' = result'
            ELSE /\ effects' = <<>>
                 /\ isChangingState' = isChangingState
                 /\ selections' = selections
                 /\ cursorStateHistory' = cursorStateHistory
                 /\ positionInHistory' = positionInHistory ]_vars

\* A redo command restored a state: one write, then one reveal of its first
\* selection.
C17_Witness ==
    /\ lastOp = "redo"
    /\ result # None
    /\ Len(effects) = 2
    /\ effects[1] = Effect("setSelections", result, TRUE)
    /\ effects[2] = Effect("reveal", <<selections[1]>>, FALSE)

\* C20: a state that undo/redo writes to the editor, and whose first selection
\* is revealed, holds at least one selection; the editor reads as the empty
\* sequence only without a document, attaching and detaching a document is
\* notified, and no selection change is notified without a document.
C20_WrittenStateNotEmpty ==
    /\ \A i \in 1..Len(effects) :
            effects[i].kind \in {"setSelections", "reveal"} => Len(effects[i].value) >= 1
    /\ (lastOp \in {"undo", "redo"} /\ result # None => Len(result) >= 1)

\* Without a document the history holds the empty state alone, and a command
\* issued then writes nothing.
C20_Witness ==
    /\ ~hasModel
    /\ cursorStateHistory = << <<>> >>
    /\ Len(prevHistory) = 1
    /\ lastOp \in {"undo", "redo"}
    /\ result = None
    /\ effects = <<>>

\* A record of a state equal to the entry at the position.
RecordedEqualToCurrent ==
    /\ lastOp = "record"
    /\ equals(selectionsOf(effects[1].value), selectionsOf(PrevCurrent))

\* C16, as stated: a record of a state equal to the entry at the position
\* makes the history one entry longer, below the cap.
C16_LengthGrowsByOne ==
    RecordedEqualToCurrent /\ Len(prevHistory) < STACK_SIZE_LIMIT =>
        Len(cursorStateHistory) = Len(prevHistory) + 1

\* C16: a record of a state equal to the entry at the position still appends
\* it: the recorded object is the last entry and the current one, right after
\* the entry that was current, and the history has position + 2 entries up to
\* the cap, which is one more than before when the position was the last
\* index, below the cap; an undo made right after it returns the entry that
\* was current, a state equal to the one recorded, not none.
C16_NoDeduplication ==
    [][ RecordedEqualToCurrent =>
            /\ positionInHistory = Len(cursorStateHistory) - 1
            /\ Len(cursorStateHistory) =
                    IF prevPosition + 2 > STACK_SIZE_LIMIT THEN STACK_SIZE_LIMIT
                    ELSE prevPosition + 2
            /\ (prevPosition = Len(prevHistory) - 1 /\ Len(prevHistory) < STACK_SIZE_LIMIT =>
                    Len(cursorStateHistory) = Len(prevHistory) + 1)
            /\ cursorStateHistory[positionInHistory + 1] = effects[1].value
            /\ cursorStateHistory[positionInHistory] = PrevCurrent
            /\ (lastOp' = "undo" =>
                    /\ result' # None
                    /\ result' = PrevCurrent
                    /\ equals(selectionsOf(result'), selectionsOf(effects[1].value))) ]_vars

\* An undo right after a record of a state equal to the current one returned
\* the entry that was current: another object with the same selections.
C16_Witness ==
    /\ lastOp = "undo"
    /\ result # None
    /\ positionInHistory + 2 = Len(cursorStateHistory)
    /\ LET recorded == cursorStateHistory[positionInHistory + 2]
       IN  /\ idOf(recorded) = nextObject
           /\ idOf(recorded) # idOf(result)
           /\ equals(selectionsOf(recorded), selectionsOf(result))

C21_EarlierUndoSkipsEqualStates ==
    /\ [](lastOp = "undo" /\ result # None =>
            /\ Len(undoStack) < Len(prevHistory)
            /\ undoStack = SubSeq(prevHistory, 1, Len(undoStack))
            /\ result = prevHistory[Len(undoStack) + 1]
            /\ prevState = << result >>
            /\ ~equals(result, currState)
            /\ \A i \in (Len(undoStack) + 2)..Len(prevHistory) :
                    equals(prevHistory[i], currState))
    /\ [](lastOp = "undo" /\ result = None =>
            /\ undoStack = <<>>
            /\ \A i \in 1..Len(prevHistory) : equals(prevHistory[i], currState))
    /\ [][ /\ (lastOp' = "undo" /\ result' = None => prevState' = prevState)
           /\ (pc = "undo" /\ pc' = "undo" => Len(undoStack') = Len(undoStack) - 1)
           /\ (lastOp' = "redo" =>
                    /\ result' = None
                    /\ undoStack' = undoStack
                    /\ prevState' = prevState) ]_vars
    /\ ((pc = "undo") ~> (pc = "idle"))

\* An undo popped an entry equal to the current state, then returned the
\* entry below it, with more entries left on the stack.
C21_Witness ==
    /\ lastOp = "undo"
    /\ result # None
    /\ Len(prevHistory) - Len(undoStack) >= 2
    /\ undoStack # <<>>
    /\ equals(prevHistory[Len(prevHistory)], currState)
    /\ prevState = << result >>

====
